---- MODULE Spec2Model ----
(***************************************************************************)
(* A model of feed-builder/index.ts, the RSS feed generator of the        *)
(* githublog repository.                                                   *)
(*                                                                         *)
(* Text is modelled as a sequence of one-character strings.  Markup tags  *)
(* of the generated XML are modelled as atomic tokens (strings longer     *)
(* than one character), so document text can never be mistaken for a tag. *)
(***************************************************************************)
EXTENDS Integers, Sequences, FiniteSets, TLC

VARIABLES
  root,         \* the directory tree below repoDir
  feedPrior,    \* the content of feed.xml when the run starts
  feedFile,     \* the content of feed.xml
  pc,           \* where main() is: "start", "scan", "read", "open", "write",
                \* "done", "failed" ("idle": main() is not run)
  blogDirs,     \* main: the year directories
  yearBlogs,    \* main: the promise of findBlogsInYearDir of every year directory
  allBlogs,     \* main: the paths of the documents
  fileContents,     \* what fs.readFile returned for every document read
  postInfo,     \* main: the promise of the PostInfo of every document
  rssFeed,      \* main: the rendered feed
  diagnostics,  \* the number of errors the process has reported
  exitCode      \* the exit code of the process

VARIABLES
  markdownContents,  \* extractPostInfo: its argument
  extracted,         \* extractPostInfo: its promise
  xpc                \* extractPostInfo: "idle" | "ready" | "resolved" | "rejected"

VARIABLES
  tz,   \* the time zone of the process: hours ahead of UTC
  now   \* the clock when the module is loaded: hours since 1970-01-01 00:00 UTC

VARIABLES
  datedBlog,  \* the date of one item: the path of the document
  pubDate,    \* the date of one item: the text rendered
  dpc         \* the date of one item: "idle" | "ready" | "resolved"

VARIABLES
  sortRoot,  \* the ordering alone: the directory tree scanned
  unsorted,  \* the ordering alone: the paths in the order of the scan
  sorted,    \* the ordering alone: the paths after allBlogs.sort
  spc        \* the ordering alone: "idle" | "ready" | "sorted"

VARIABLES
  twiceRoot,     \* two builds: the directory tree of both
  twiceContent,  \* two builds: the content of every document
  build,         \* two builds: 1 in the first, 2 in the second (0: none)
  twiceBlogs,    \* two builds: allBlogs of the build
  twiceInfos,    \* two builds: postInfo of the build
  firstFeed,     \* two builds: the feed of the first
  secondFeed,    \* two builds: the feed of the second
  tpc            \* two builds: "idle" | "scan" | "extract" | "render" | "built"

VARIABLES
  checkout,      \* the root elsewhere: the directory repoDir is
  placedBlog,    \* the root elsewhere: the path of a document below it
  matchedDate,   \* the root elsewhere: the date the sort takes the path to have
  renderedDate,  \* the root elsewhere: the date rendered for the path
  lpc            \* the root elsewhere: "idle" | "ready" | "resolved"

mvars == <<root, feedPrior, feedFile, pc, blogDirs, yearBlogs, allBlogs, fileContents,
           postInfo, rssFeed, diagnostics, exitCode>>
xvars == <<markdownContents, extracted, xpc>>
evars == <<tz, now>>
dvars == <<datedBlog, pubDate, dpc>>
svars == <<sortRoot, unsorted, sorted, spc>>
tvars == <<twiceRoot, twiceContent, build, twiceBlogs, twiceInfos, firstFeed, secondFeed, tpc>>
\* what a step of main() and a step of extractPostInfo leave alone
lvars == <<checkout, placedBlog, matchedDate, renderedDate, lpc>>
others == <<evars, dvars, svars, tvars, lvars>>
vars == <<mvars, xvars, others>>

----------------------------------------------------------------------------
(* Bounds of the model *)

\* longest document enumerated exhaustively over Alphabet
MaxLen == 3
\* bodies of budget-MaxOver .. budget+MaxOver characters are enumerated
MaxOver == 1
\* the zones of MaxZone hours behind UTC to MaxZone hours ahead of it are enumerated
MaxZone == 1
\* the trees whose documents are ordered hold up to MaxSorted documents
MaxSorted == 7
\* the trees that are built twice hold up to MaxTwice entries
MaxTwice == 2
\* the trees whose documents are read in every order hold up to MaxRead documents
MaxRead == 3

----------------------------------------------------------------------------
(* Characters *)

LF == "\n"
SP == " "
BSL == "\\"

\* "a"  an ordinary letter
\* "#"  a character that is markup syntax: the reducer removes it
\* "["  a literal punctuation character: the serializer escapes it
\* "$" and "'" are ordinary for markdown, special for String.replace
Alphabet == {"a", SP, LF, "#", "[", "$", "'"}

\* the states of a promise
Pending == [state |-> "pending"]
Rejected == [state |-> "rejected"]

\* values that are not text
Undefined == <<"undefined">>
Thrown == <<"thrown">>

Min(a, b) == IF a < b THEN a ELSE b

Last(s) == s[Len(s)]

Rep(c, n) == [i \in 1..n |-> c]

\* the two halves of a sequence of two or more elements
Left(s) == SubSeq(s, 1, Len(s) \div 2)
Right(s) == SubSeq(s, Len(s) \div 2 + 1, Len(s))

----------------------------------------------------------------------------
(* String primitives used by extractPostInfo *)

\* String.prototype.split(sep), sep one character
\* (the pieces of the two halves, the piece across the middle glued together)
RECURSIVE Split(_, _)
Split(s, sep) ==
  IF s = <<>> THEN <<<<>>>>
  ELSE IF Len(s) = 1 THEN (IF s[1] = sep THEN <<<<>>, <<>>>> ELSE <<s>>)
  ELSE LET l == Split(Left(s), sep)
           r == Split(Right(s), sep)
       IN  SubSeq(l, 1, Len(l) - 1) \o <<Last(l) \o r[1]>> \o Tail(r)

\* Array.prototype.filter(Boolean) on strings: the empty string is falsy
FilterBoolean(lines) == SelectSeq(lines, LAMBDA l : l # <<>>)

\* Array.prototype.join('\n')
RECURSIVE Join(_, _)
Join(lines, sep) ==
  IF lines = <<>> THEN <<>>
  ELSE IF Len(lines) = 1 THEN lines[1]
  ELSE Join(Left(lines), sep) \o sep \o Join(Right(lines), sep)

\* Array.prototype.flat() of a sequence of sequences; FlatMap is map(F).flat()
RECURSIVE FlatMap(_, _)
FlatMap(F(_), s) ==
  IF s = <<>> THEN <<>>
  ELSE IF Len(s) = 1 THEN F(s[1])
  ELSE FlatMap(F, Left(s)) \o FlatMap(F, Right(s))

Flat(ss) == FlatMap(LAMBDA x : x, ss)

\* String.prototype.indexOf(pat): the first index at which pat occurs, 0 if none
IndexOf(s, pat) ==
  LET hits == {i \in 1..(Len(s) - Len(pat) + 1) : SubSeq(s, i, i + Len(pat) - 1) = pat}
  IN  IF hits = {} THEN 0 ELSE CHOOSE i \in hits : \A j \in hits : i <= j

\* String.prototype.slice(0, n)
Slice0(s, n) == SubSeq(s, 1, Min(n, Len(s)))

IsWhiteSpace(c) == c \in {SP, LF}

\* (String.prototype.trimEnd(): the white space in front is kept)
TrimEnd(s) ==
  LET inked == {i \in 1..Len(s) : ~IsWhiteSpace(s[i])}
  IN  IF inked = {} THEN <<>>
      ELSE SubSeq(s, 1, CHOOSE i \in inked : \A j \in inked : i >= j)

\* String.prototype.trim()
Trim(s) ==
  LET inked == {i \in 1..Len(s) : ~IsWhiteSpace(s[i])}
  IN  IF inked = {} THEN <<>>
      ELSE SubSeq(s, CHOOSE i \in inked : \A j \in inked : i <= j,
                     CHOOSE i \in inked : \A j \in inked : i >= j)

\* String.prototype.replace(/\n/g, ' ')
ReplaceNewlines(s) == [i \in 1..Len(s) |-> IF s[i] = LF THEN SP ELSE s[i]]

----------------------------------------------------------------------------
(* Plain-text reduction: remark().use(strip).process(text).then(String)    *)
(*                                                                         *)
(* The text is parsed as markdown, strip-markdown replaces every node by   *)
(* its plain text, and the result is serialized as markdown again.  Three *)
(* effects of that pipeline are modelled, character by character: markup   *)
(* syntax is removed, literal punctuation of the text is written escaped, *)
(* and a non-empty result ends with a line feed.  Block structure          *)
(* (paragraph breaks, indentation) is not modelled.                        *)

\* (a reducer that leaves markup in place)
StripCharKeepMarkup(c) == <<c>>

\* strip-markdown keeps the text of a node and drops its markup
StripChar(c) == IF c = "#" THEN <<>> ELSE <<c>>

\* the markdown serializer writes a literal punctuation character of a text
\* node with a backslash in front of it
EscapeChar(c) == IF c = "[" THEN <<BSL, c>> ELSE <<c>>

\* the serializer ends a non-empty document with a line feed
Serialize(s) ==
  LET out == FlatMap(EscapeChar, s)
  IN  IF out # <<>> /\ Last(out) # LF THEN Append(out, LF) ELSE out

\* (a reducer that throws on a missing value)
stripMarkdownNoUndefined(text) ==
  IF text = Undefined THEN Thrown
  ELSE Serialize(FlatMap(StripChar, text))

\* A missing value (undefined) is read as the empty document.
stripMarkdown(text) ==
  LET value == IF text = Undefined THEN <<>> ELSE text
  IN  Serialize(FlatMap(StripChar, value))

----------------------------------------------------------------------------
(* extractPostInfo *)

descriptionCharsToUse == 420

Marker == <<".", ".", ".">>

\* (the lines after the first, joined and not cut)
nonTitleContentUncut(contentWithoutEmptyLines) ==
  Join(SubSeq(contentWithoutEmptyLines, 2, Len(contentWithoutEmptyLines)), <<LF>>)

\* lines 57-59: the lines after the first, joined and cut to the budget
nonTitleContent(contentWithoutEmptyLines) ==
  Slice0(Join(SubSeq(contentWithoutEmptyLines, 2, Len(contentWithoutEmptyLines)),
              <<LF>>),
         descriptionCharsToUse)

\* an await of a rejected promise rejects the async function
extractPostInfo(contents) ==
  LET contentWithoutEmptyLines == FilterBoolean(Split(contents, LF))
      first == IF contentWithoutEmptyLines = <<>> THEN Undefined
               ELSE contentWithoutEmptyLines[1]
      title == stripMarkdown(first)
      stripped == stripMarkdown(nonTitleContent(contentWithoutEmptyLines))
  IN  IF title = Thrown \/ stripped = Thrown THEN Rejected
      ELSE [state |-> "fulfilled",
            title |-> title,
            description |-> ReplaceNewlines(Trim(stripped)) \o Marker]

----------------------------------------------------------------------------
(* The directory tree the run reads *)

\* entries the model builds trees of, as paths relative to the root
MaxEntries == 3

Digits == {"0", "1", "2", "3", "4", "5", "6", "7", "8", "9"}

Y2023 == <<"2", "0", "2", "3">>
Y2024 == <<"2", "0", "2", "4">>
NDocs == <<"d", "o", "c", "s">>
M1 == <<"1">>
MX == <<"x">>
D1 == <<"1">>
D2 == <<"2">>
FA == <<"a">>
FB == <<"b">>
FN == <<"n">>
DS == <<"s">>

Entries ==
  { <<Y2023, M1, D1, FA>>,   \* two documents of one day
    <<Y2023, M1, D1, FB>>,
    <<Y2023, M1, D2, FA>>,   \* another day
    <<Y2024, M1, D1, FA>>,   \* another year
    <<Y2023, MX, D1, FA>>,   \* a month directory that names no month
    <<NDocs, M1, D1, FA>>,   \* a file below a directory that names no year
    <<Y2023, FN>>,           \* a file where a month directory is expected
    <<Y2023, M1, D1, DS, FA>> }  \* a directory where a document is expected

\* a directory holds its entries in the order readdir lists them
File(name) == [name |-> name, kind |-> "file", kids |-> <<>>]
Dir(name, kids) == [name |-> name, kind |-> "dir", kids |-> kids]

RECURSIVE Insert(_, _)
Insert(nodes, path) ==
  IF Len(path) = 1 THEN Append(nodes, File(path[1]))
  ELSE LET at == {i \in DOMAIN nodes : nodes[i].name = path[1]}
       IN  IF at = {} THEN Append(nodes, Dir(path[1], Insert(<<>>, Tail(path))))
           ELSE LET i == CHOOSE i \in at : TRUE
                IN  [nodes EXCEPT ![i] = Dir(path[1], Insert(nodes[i].kids, Tail(path)))]

RECURSIVE TreeOf(_)
TreeOf(entries) ==
  IF entries = <<>> THEN <<>>
  ELSE Insert(TreeOf(SubSeq(entries, 1, Len(entries) - 1)), Last(entries))

Range(q) == {q[i] : i \in DOMAIN q}

RECURSIVE SeqsOfDistinct(_, _)
SeqsOfDistinct(S, n) ==
  IF n = 0 THEN {<<>>}
  ELSE LET shorter == SeqsOfDistinct(S, n - 1)
       IN  shorter \cup
           UNION {{Append(q, e) : e \in S \ Range(q)} :
                    q \in {r \in shorter : Len(r) = n - 1}}

Trees == {TreeOf(es) : es \in SeqsOfDistinct(Entries, MaxEntries)}

----------------------------------------------------------------------------
(* Paths and the file system calls *)

SLASH == "/"

repoDir == <<SLASH, "r">>

\* path.join(dir, name)
PathJoin(dir, name) == dir \o <<SLASH>> \o name

\* the node a path names: [found |-> FALSE] if there is none
RECURSIVE Walk(_, _)
Walk(node, names) ==
  IF names = <<>> THEN [found |-> TRUE, node |-> node]
  ELSE LET at == {i \in DOMAIN node.kids : node.kids[i].name = names[1]}
       IN  IF node.kind # "dir" \/ at = {} THEN [found |-> FALSE, node |-> node]
           ELSE Walk(node.kids[CHOOSE i \in at : TRUE], Tail(names))

Lookup(tree, path) ==
  LET rel == SubSeq(path, Len(repoDir) + 1, Len(path))
      names == FilterBoolean(Split(rel, SLASH))
  IN  Walk(Dir(<<>>, tree), names)

\* fs.readdir(path): the names of the directory, or an error (ENOENT, ENOTDIR)
readdir(tree, path) ==
  LET at == Lookup(tree, path)
  IN  IF at.found /\ at.node.kind = "dir"
      THEN [ok |-> TRUE, names |-> [i \in DOMAIN at.node.kids |-> at.node.kids[i].name]]
      ELSE [ok |-> FALSE, names |-> <<>>]

\* fs.readFile(path) can return a content only for a file (EISDIR otherwise)
IsFile(tree, path) ==
  LET at == Lookup(tree, path) IN at.found /\ at.node.kind = "file"

----------------------------------------------------------------------------
(* The scan *)

\* (a pattern that accepts every name)
yearRegexAny(name) == TRUE

\* /^2[0-9]{3}$/
yearRegex(name) ==
  /\ Len(name) = 4
  /\ name[1] = "2"
  /\ \A i \in 2..4 : name[i] \in Digits

\* (only the first directory is read)
ReadAllFirstOnly(tree, dirs) ==
  LET listing == readdir(tree, dirs[1])
  IN  IF dirs = <<>> THEN [ok |-> TRUE, paths |-> <<>>]
      ELSE [ok |-> listing.ok,
            paths |-> [k \in DOMAIN listing.names |-> PathJoin(dirs[1], listing.names[k])]]

\* Promise.all of the readdir of every directory of dirs, each name joined to
\* its directory, flattened; ok is FALSE if one of the reads fails
ReadAll(tree, dirs) ==
  LET listings == [i \in DOMAIN dirs |-> readdir(tree, dirs[i])]
  IN  [ok |-> \A i \in DOMAIN dirs : listings[i].ok,
       paths |-> Flat([i \in DOMAIN dirs |->
                        [k \in DOMAIN listings[i].names |->
                           PathJoin(dirs[i], listings[i].names[k])]])]

findBlogsInYearDir(tree, yearDir) ==
  LET dayDirs == ReadAll(tree, ReadAll(tree, <<yearDir>>).paths)
      blogs == ReadAll(tree, dayDirs.paths)
  IN  IF ReadAll(tree, <<yearDir>>).ok /\ dayDirs.ok /\ blogs.ok
      THEN [state |-> "fulfilled", value |-> blogs.paths]
      ELSE [state |-> "rejected", value |-> <<>>]

\* results.filter(dir => yearRegex.test(dir)).map(yearDir => path.join(repoDir, yearDir))
blogDirsOf(results) ==
  LET years == SelectSeq(results, yearRegex)
  IN  [i \in DOMAIN years |-> PathJoin(repoDir, years[i])]

----------------------------------------------------------------------------
(* Dates: new Date("Y/M/D") of the runtime's legacy date parser, as the     *)
(* number of the local calendar day (days since 1970-01-01)                 *)

DigitVal(c) == CHOOSE n \in 0..9 : ToString(n) = c

IsNumber(s) == s # <<>> /\ \A i \in DOMAIN s : s[i] \in Digits

RECURSIVE ToNumber(_)
ToNumber(s) ==
  IF s = <<>> THEN 0 ELSE 10 * ToNumber(SubSeq(s, 1, Len(s) - 1)) + DigitVal(Last(s))

IsLeapYear(y) == (y % 4 = 0 /\ y % 100 # 0) \/ y % 400 = 0

DaysInMonth(y, m) ==
  IF m = 2 THEN (IF IsLeapYear(y) THEN 29 ELSE 28)
  ELSE IF m \in {4, 6, 9, 11} THEN 30 ELSE 31

RECURSIVE DaysBeforeMonth(_, _)
DaysBeforeMonth(y, m) ==
  IF m = 1 THEN 0 ELSE DaysBeforeMonth(y, m - 1) + DaysInMonth(y, m - 1)

LeapYearsBefore(y) == (y - 1) \div 4 - (y - 1) \div 100 + (y - 1) \div 400

DaysBeforeYear(y) == 365 * (y - 1970) + LeapYearsBefore(y) - LeapYearsBefore(1970)

InvalidDate == [valid |-> FALSE, time |-> 0]

\* the hour that starts day d of month m of year y, counted from 1970-01-01 00:00
HourOf(y, m, d) == 24 * (DaysBeforeYear(y) + DaysBeforeMonth(y, m) + d - 1)

\* new Date("Y/M/D"): a month of 1..12 and a day of 1..31 are accepted; a day
\* past the end of the month counts on into the next month.  A text without a
\* zone is a local time: the time value is that of midnight in the zone of the
\* process (in hours, and with one offset the year round)
NewDate(text) ==
  LET parts == Split(text, SLASH)
  IN  IF Len(parts) # 3 \/ \E i \in 1..3 : ~IsNumber(parts[i]) THEN InvalidDate
      ELSE LET y == ToNumber(parts[1])
               m == ToNumber(parts[2])
               d == ToNumber(parts[3])
           IN  IF m \notin 1..12 \/ d \notin 1..31 THEN InvalidDate
               ELSE [valid |-> TRUE, time |-> HourOf(y, m, d) - tz]

\* the year, month and day of month of the day with a number, counted from
\* 1970-01-01
YearOfDay(n) ==
  CHOOSE y \in (1970 + n \div 366)..(1970 + n \div 365) :
    DaysBeforeYear(y) <= n /\ n < DaysBeforeYear(y + 1)

MonthOfDay(n) ==
  LET y == YearOfDay(n)
      r == n - DaysBeforeYear(y)
  IN  CHOOSE m \in 1..12 :
        DaysBeforeMonth(y, m) <= r /\ r < DaysBeforeMonth(y, m) + DaysInMonth(y, m)

DateOfDay(n) ==
  n - DaysBeforeYear(YearOfDay(n)) - DaysBeforeMonth(YearOfDay(n), MonthOfDay(n)) + 1

\* 1970-01-01 was a Thursday
WeekDayNames == <<"Sun", "Mon", "Tue", "Wed", "Thu", "Fri", "Sat">>
MonthNames ==
  <<"Jan", "Feb", "Mar", "Apr", "May", "Jun", "Jul", "Aug", "Sep", "Oct", "Nov", "Dec">>

\* a number below 100 in two digits
Pad2(n) == IF n < 10 THEN "0" \o ToString(n) ELSE ToString(n)

\* Date.prototype.toUTCString(): "Thu, 07 Mar 2024 00:00:00 GMT", the day and
\* the hour those of UTC; "Invalid Date" for a date that is not valid
toUTCString(date) ==
  IF ~date.valid THEN <<"Invalid Date">>
  ELSE LET n == date.time \div 24
           h == date.time % 24
       IN  << WeekDayNames[((n + 4) % 7) + 1], ", ", Pad2(DateOfDay(n)), " ",
              MonthNames[MonthOfDay(n)], " ", ToString(YearOfDay(n)), " ",
              Pad2(h), ":00:00 GMT" >>

\* Date.prototype.getFullYear(): the year in the zone of the process
getFullYear(time) == YearOfDay((time + tz) \div 24)

----------------------------------------------------------------------------
(* The ordering of the documents *)

NoMatch == [matched |-> FALSE, group |-> <<>>]

IsDigitAt(s, i) == i <= Len(s) /\ s[i] \in Digits

\* 2\d{3}\/\d{1,2}\/\d{1,2} at index i with ml month digits and dl day digits,
\* and one character or more after it
DateAt(s, i, ml, dl) ==
  /\ i + 5 + ml + dl < Len(s)
  /\ s[i] = "2"
  /\ \A k \in 1..3 : IsDigitAt(s, i + k)
  /\ s[i + 4] = SLASH
  /\ \A k \in 1..ml : IsDigitAt(s, i + 4 + k)
  /\ s[i + 5 + ml] = SLASH
  /\ \A k \in 1..dl : IsDigitAt(s, i + 5 + ml + k)

\* String.prototype.match(/.+?(2\d{3}\/\d{1,2}\/\d{1,2}).+/): the lazy .+? takes
\* the first index that matches, \d{1,2} the longer alternative that matches
dateExtractionRegex(s) ==
  LET Lengths(i) == {ld \in {1, 2} \X {1, 2} : DateAt(s, i, ld[1], ld[2])}
      starts == {i \in 2..Len(s) : Lengths(i) # {}}
  IN  IF starts = {} THEN NoMatch
      ELSE LET i == CHOOSE i \in starts : \A j \in starts : i <= j
               ld == CHOOSE ld \in Lengths(i) :
                       \A o \in Lengths(i) :
                         ld[1] > o[1] \/ (ld[1] = o[1] /\ ld[2] >= o[2])
           IN  [matched |-> TRUE, group |-> SubSeq(s, i, i + 5 + ld[1] + ld[2])]

\* the comparison function handed to sort; +(new Date(..)) of an invalid date
\* is NaN, and so is a difference with it
comparefn(a, b) ==
  LET aMatchResult == dateExtractionRegex(a)
      bMatchResult == dateExtractionRegex(b)
  IN  IF ~aMatchResult.matched \/ ~bMatchResult.matched THEN [nan |-> FALSE, v |-> 0]
      ELSE LET da == NewDate(aMatchResult.group)
               db == NewDate(bMatchResult.group)
           IN  IF ~da.valid \/ ~db.valid THEN [nan |-> TRUE, v |-> 0]
               ELSE [nan |-> FALSE, v |-> da.time - db.time]

\* SortCompare of Array.prototype.sort: a NaN result counts as +0
SortCompare(a, b) ==
  LET r == comparefn(a, b) IN IF r.nan THEN 0 ELSE r.v

\* Array.prototype.sort of the runtime, for arrays shorter than 64: the
\* leading run is found (a strictly descending one is reversed), the rest
\* is inserted by binary insertion

RECURSIVE RunLength(_, _, _)
RunLength(work, idx, isDescending) ==
  IF idx > Len(work) THEN idx - 1
  ELSE LET order == SortCompare(work[idx], work[idx - 1])
       IN  IF (isDescending /\ order >= 0) \/ (~isDescending /\ order < 0)
           THEN idx - 1
           ELSE RunLength(work, idx + 1, isDescending)

ReverseRange(work, n) ==
  [i \in DOMAIN work |-> IF i <= n THEN work[n + 1 - i] ELSE work[i]]

RECURSIVE BinarySearch(_, _, _, _)
BinarySearch(work, pivot, left, right) ==
  IF left >= right THEN left
  ELSE LET mid == left + (right - left) \div 2
       IN  IF SortCompare(pivot, work[mid]) < 0
           THEN BinarySearch(work, pivot, left, mid)
           ELSE BinarySearch(work, pivot, mid + 1, right)

RECURSIVE BinaryInsertionSort(_, _)
BinaryInsertionSort(work, start) ==
  IF start > Len(work) THEN work
  ELSE LET pivot == work[start]
           left == BinarySearch(work, pivot, 1, start)
           moved == [p \in DOMAIN work |->
                       IF p < left \/ p > start THEN work[p]
                       ELSE IF p = left THEN pivot
                       ELSE work[p - 1]]
       IN  BinaryInsertionSort(moved, start + 1)

\* (no sorting at all)
SortUnsorted(array) == array

\* (the documents without a date left out)
SortDatedOnly(array) == SelectSeq(array, LAMBDA blog : dateExtractionRegex(blog).matched)

Sort(array) ==
  IF Len(array) < 2 THEN array
  ELSE LET isDescending == SortCompare(array[2], array[1]) < 0
           run == RunLength(array, 3, isDescending)
           work == IF isDescending THEN ReverseRange(array, run) ELSE array
       IN  BinaryInsertionSort(work, run + 1)

----------------------------------------------------------------------------
(* Rendering.  The fixed text of the templates is cut into tokens. *)

githubURLBase == "https://github.com/francisrstokes/githublog"
githubURLPrefix == <<githubURLBase, "/blob/main">>

blogTitle == "Francis Stokes :: Githublog"
blogDescription ==
  "I'm sick of complex blogging solutions, so markdown files in a git repo it is."
\* both are read from the clock when the module is loaded
copyrightField == <<ToString(getFullYear(now)), " Francis Stokes - All rights reserved">>
lastBuildDate == toUTCString([valid |-> TRUE, time |-> now])
ttl == 86400 \div 60

Placeholder == "{blog_entries}"

rssTemplate ==
  << "<?xml version=\"1.0\" encoding=\"UTF-8\" ?>\n<rss version=\"2.0\">\n",
     "<channel>",
     "\n <title>", blogTitle, "</title>\n <description>", blogDescription,
     "</description>\n <link>", githubURLBase, "</link>\n <copyright>" >>
    \o copyrightField \o <<"</copyright>\n <lastBuildDate>">>
    \o lastBuildDate \o <<"</lastBuildDate>\n <pubDate>">>
    \o lastBuildDate
    \o << "</pubDate>\n <ttl>", ToString(ttl), "</ttl>\n\n",
          Placeholder,
          "\n\n", "</channel>", "\n</rss>\n" >>

\* (every item dated with the time of the build)
generateRSSItemBuilt(info, link, date) ==
  <<"<item>", "\n  <title>">> \o info.title
    \o <<"</title>\n  <description>">> \o info.description
    \o <<"</description>\n  <link>">> \o link
    \o <<"</link>\n  <pubDate>">> \o lastBuildDate
    \o <<"</pubDate>\n", "</item>", LF>>

generateRSSItem(info, link, date) ==
  <<"<item>", "\n  <title>">> \o info.title
    \o <<"</title>\n  <description>">> \o info.description
    \o <<"</description>\n  <link>">> \o link
    \o <<"</link>\n  <pubDate>">> \o date
    \o <<"</pubDate>\n", "</item>", LF>>

\* the number of "$" in a row right before index i
DollarsBefore(s, i) ==
  LET runs == {k \in 0..(i - 1) : \A j \in (i - k)..(i - 1) : s[j] = "$"}
  IN  CHOOSE k \in runs : \A o \in runs : k >= o

\* GetSubstitution of String.prototype.replace for a string pattern: in the
\* replacement, $$ is a "$", $& the match and $' the text after the match;
\* the replacement is read from left to right.  (The pattern for the text
\* before the match needs a grave accent, which no text of the model holds.)
StartsPattern(s, i) ==
  /\ s[i] = "$"
  /\ DollarsBefore(s, i) % 2 = 0
  /\ i < Len(s)
  /\ s[i + 1] \in {"$", "&", "'"}

\* (the replacement taken literally)
GetSubstitutionLiteral(replacement, matched, before, after) == replacement

GetSubstitution(replacement, matched, before, after) ==
  LET At(i) ==
        IF StartsPattern(replacement, i)
        THEN CASE replacement[i + 1] = "$" -> <<"$">>
               [] replacement[i + 1] = "&" -> matched
               [] replacement[i + 1] = "'" -> after
        ELSE IF i > 1 /\ StartsPattern(replacement, i - 1) THEN <<>>
        ELSE <<replacement[i]>>
  IN  FlatMap(At, [i \in DOMAIN replacement |-> i])

\* String.prototype.replace(pattern, replacement), both strings: the first
\* occurrence of the pattern is replaced
Replace(s, pattern, replacement) ==
  LET i == IndexOf(s, pattern)
      before == SubSeq(s, 1, i - 1)
      after == SubSeq(s, i + Len(pattern), Len(s))
  IN  IF i = 0 THEN s
      ELSE before \o GetSubstitution(replacement, pattern, before, after) \o after

\* blog.replace(repoDir + '/', '').split('/').slice(0, 3).join('/'), with dir
\* the directory repoDir is
extractedDateIn(dir, blog) ==
  Join(Slice0(Split(Replace(blog, Append(dir, SLASH), <<>>), SLASH), 3), <<SLASH>>)

extractedDate(blog) == extractedDateIn(repoDir, blog)

dateOf(blog) == toUTCString(NewDate(extractedDate(blog)))

\* (the link of the day directory of the document)
urlOfDay(blog) == githubURLPrefix \o <<SLASH>> \o extractedDate(blog)

urlOf(blog) == Replace(blog, repoDir, githubURLPrefix)

\* (the PostInfos taken in the opposite order)
rssItemsOfInfosReversed(blogs, infos) ==
  [i \in DOMAIN infos |->
     generateRSSItem(infos[Len(infos) + 1 - i], urlOf(blogs[i]), dateOf(blogs[i]))]

\* the item of every document, in the order of the documents
rssItemsOf(blogs, infos) ==
  [i \in DOMAIN infos |-> generateRSSItem(infos[i], urlOf(blogs[i]), dateOf(blogs[i]))]

rssFeedOf(blogs, infos) ==
  Replace(rssTemplate, <<Placeholder>>, Join(rssItemsOf(blogs, infos), <<LF>>))

----------------------------------------------------------------------------
(* The documents extractPostInfo is applied to *)

RECURSIVE StringsUpTo(_)
StringsUpTo(n) ==
  IF n = 0 THEN {<<>>}
  ELSE LET shorter == StringsUpTo(n - 1)
       IN  shorter \cup {Append(s, c) : s \in shorter, c \in Alphabet}

\* a title line and a one-line body whose length is around the budget
LongDocuments ==
  {<<"a", LF>> \o Rep(c, n) :
     c \in {"a", "#", "[", SP},
     n \in (descriptionCharsToUse - MaxOver)..(descriptionCharsToUse + MaxOver)}

\* a title line and every body up to the length of the short documents
TitledDocuments == {<<"a", LF>> \o body : body \in StringsUpTo(MaxLen)}

Documents == StringsUpTo(MaxLen) \cup LongDocuments \cup TitledDocuments

----------------------------------------------------------------------------
(* The run of main() *)

\* no feed.xml: a value that no content equals
Absent == <<"ENOENT">>
OldFeed == <<"<?xml ... the feed of an earlier run ... </rss>\n">>

Unread == <<"unread">>

\* the contents fs.readFile returns in a run
DocContents ==
  { <<>>,                          \* an empty file
    <<LF>>,                        \* an empty line
    <<"a">>,                       \* one line
    <<"#", "a", LF, "$", "'">> }   \* a heading and a body

XIdle ==
  /\ markdownContents = <<>>
  /\ extracted = Pending
  /\ xpc = "idle"

DIdle ==
  /\ datedBlog = <<>>
  /\ pubDate = <<>>
  /\ dpc = "idle"

SIdle ==
  /\ sortRoot = <<>>
  /\ unsorted = <<>>
  /\ sorted = <<>>
  /\ spc = "idle"

TIdle ==
  /\ twiceRoot = <<>>
  /\ twiceContent = <<>>
  /\ build = 0
  /\ twiceBlogs = <<>>
  /\ twiceInfos = <<>>
  /\ firstFeed = <<>>
  /\ secondFeed = <<>>
  /\ tpc = "idle"

LIdle ==
  /\ checkout = <<>>
  /\ placedBlog = <<>>
  /\ matchedDate = InvalidDate
  /\ renderedDate = <<>>
  /\ lpc = "idle"

TimeZones == (0 - MaxZone)..MaxZone

\* a noon of the year, the last hour of the year, the first hour of the next
Clocks == {HourOf(2024, 5, 10) + 12, HourOf(2024, 12, 31) + 23, HourOf(2025, 1, 1)}

\* a build host on UTC, at noon of a day of the year
BuildHost ==
  /\ tz = 0
  /\ now = HourOf(2024, 5, 10) + 12

Init ==
  /\ root \in Trees
  /\ feedPrior \in {Absent, OldFeed}
  /\ feedFile = feedPrior
  /\ pc = "start"
  /\ blogDirs = <<>>
  /\ yearBlogs = <<>>
  /\ allBlogs = <<>>
  /\ fileContents = <<>>
  /\ postInfo = <<>>
  /\ rssFeed = <<>>
  /\ diagnostics = 0
  /\ exitCode = 0
  /\ BuildHost
  /\ XIdle
  /\ DIdle
  /\ SIdle
  /\ TIdle
  /\ LIdle

\* (the rejection caught and dropped)
MainRejectsUnreported ==
  /\ pc' = "failed"
  /\ diagnostics' = diagnostics
  /\ exitCode' = 0

\* main() is called without a handler: its rejection is an unhandled
\* rejection, which the runtime reports before it exits with code 1
MainRejects ==
  /\ pc' = "failed"
  /\ diagnostics' = diagnostics + 1
  /\ exitCode' = 1

YearPending == [state |-> "pending", value |-> <<>>]

\* (feed.xml opened for writing when the run starts)
ReadRootFeedOpened ==
  /\ pc = "start"
  /\ blogDirs' = blogDirsOf(readdir(root, repoDir).names)
  /\ yearBlogs' = [i \in DOMAIN blogDirs' |-> YearPending]
  /\ feedFile' = <<>>
  /\ pc' = "scan"
  /\ UNCHANGED <<root, feedPrior, allBlogs, fileContents, postInfo, rssFeed,
                 diagnostics, exitCode, xvars, others>>

\* lines 94-100: the root is listed and the scan of every year directory starts
ReadRoot ==
  /\ pc = "start"
  /\ blogDirs' = blogDirsOf(readdir(root, repoDir).names)
  /\ yearBlogs' = [i \in DOMAIN blogDirs' |-> YearPending]
  /\ pc' = "scan"
  /\ UNCHANGED <<root, feedPrior, feedFile, allBlogs, fileContents, postInfo, rssFeed,
                 diagnostics, exitCode, xvars, others>>

\* line 94: the root cannot be listed
ReadRootFails ==
  /\ pc = "start"
  /\ MainRejects
  /\ UNCHANGED <<root, feedPrior, feedFile, blogDirs, yearBlogs, allBlogs, fileContents,
                 postInfo, rssFeed, xvars, others>>

\* (the result of a scan put where the first scan not settled is)
FindBlogsInYearDirArrival(i) ==
  /\ pc = "scan"
  /\ yearBlogs[i].state = "pending"
  /\ LET blogs == findBlogsInYearDir(root, blogDirs[i])
         slot == CHOOSE k \in DOMAIN yearBlogs :
                   /\ yearBlogs[k].state = "pending"
                   /\ \A j \in DOMAIN yearBlogs : yearBlogs[j].state = "pending" => k <= j
     IN  /\ yearBlogs' = [yearBlogs EXCEPT ![slot] = blogs]
         /\ IF blogs.state = "rejected" THEN MainRejects
            ELSE UNCHANGED <<pc, diagnostics, exitCode>>
  /\ UNCHANGED <<root, feedPrior, feedFile, blogDirs, allBlogs, fileContents, postInfo,
                 rssFeed, xvars, others>>

\* lines 74-91: the scan of one year directory settles
FindBlogsInYearDir(i) ==
  /\ pc = "scan"
  /\ yearBlogs[i].state = "pending"
  /\ LET blogs == findBlogsInYearDir(root, blogDirs[i])
     IN  /\ yearBlogs' = [yearBlogs EXCEPT ![i] = blogs]
         /\ IF blogs.state = "rejected" THEN MainRejects
            ELSE UNCHANGED <<pc, diagnostics, exitCode>>
  /\ UNCHANGED <<root, feedPrior, feedFile, blogDirs, allBlogs, fileContents, postInfo,
                 rssFeed, xvars, others>>

\* lines 75-87: a directory below the year directory cannot be listed
FindBlogsInYearDirFails(i) ==
  /\ pc = "scan"
  /\ yearBlogs[i].state = "pending"
  /\ yearBlogs' = [yearBlogs EXCEPT ![i] = [state |-> "rejected", value |-> <<>>]]
  /\ MainRejects
  /\ UNCHANGED <<root, feedPrior, feedFile, blogDirs, allBlogs, fileContents, postInfo,
                 rssFeed, xvars, others>>

\* lines 100-117: every scan has settled; the paths are flattened and sorted,
\* and the read of every document starts
SortBlogs ==
  /\ pc = "scan"
  /\ \A i \in DOMAIN yearBlogs : yearBlogs[i].state = "fulfilled"
  /\ allBlogs' = Sort(Flat([i \in DOMAIN yearBlogs |-> yearBlogs[i].value]))
  /\ fileContents' = [i \in DOMAIN allBlogs' |-> Unread]
  /\ postInfo' = [i \in DOMAIN allBlogs' |-> Pending]
  /\ pc' = "read"
  /\ UNCHANGED <<root, feedPrior, feedFile, blogDirs, yearBlogs, rssFeed, diagnostics,
                 exitCode, xvars, others>>

\* line 117: one document is read and its PostInfo extracted
ReadFile(i) ==
  /\ pc = "read"
  /\ postInfo[i].state = "pending"
  /\ IsFile(root, allBlogs[i])
  /\ \E c \in DocContents :
       /\ fileContents' = [fileContents EXCEPT ![i] = c]
       /\ postInfo' = [postInfo EXCEPT ![i] = extractPostInfo(c)]
  /\ IF postInfo'[i].state = "rejected" THEN MainRejects
     ELSE UNCHANGED <<pc, diagnostics, exitCode>>
  /\ UNCHANGED <<root, feedPrior, feedFile, blogDirs, yearBlogs, allBlogs, rssFeed,
                 xvars, others>>

\* line 117: the read of one document fails
ReadFileFails(i) ==
  /\ pc = "read"
  /\ postInfo[i].state = "pending"
  /\ postInfo' = [postInfo EXCEPT ![i] = Rejected]
  /\ MainRejects
  /\ UNCHANGED <<root, feedPrior, feedFile, blogDirs, yearBlogs, allBlogs, fileContents,
                 rssFeed, xvars, others>>

\* (the PostInfos not awaited: postInfo is a promise, which has no length, and
\* the loop over it adds no item)
RenderNotAwaited ==
  /\ pc = "read"
  /\ rssFeed' = rssFeedOf(<<>>, <<>>)
  /\ pc' = "open"
  /\ UNCHANGED <<root, feedPrior, feedFile, blogDirs, yearBlogs, allBlogs, fileContents,
                 postInfo, diagnostics, exitCode, xvars, others>>

\* lines 119-137: every PostInfo is there; the feed is rendered and
\* fs.writeFile is called
Render ==
  /\ pc = "read"
  /\ \A i \in DOMAIN postInfo : postInfo[i].state = "fulfilled"
  /\ rssFeed' = rssFeedOf(allBlogs, postInfo)
  /\ pc' = "open"
  /\ UNCHANGED <<root, feedPrior, feedFile, blogDirs, yearBlogs, allBlogs, fileContents,
                 postInfo, diagnostics, exitCode, xvars, others>>

\* line 137, fs.writeFile: feed.xml is opened for writing, which empties it
OpenFeed ==
  /\ pc = "open"
  /\ feedFile' = <<>>
  /\ pc' = "write"
  /\ UNCHANGED <<root, feedPrior, blogDirs, yearBlogs, allBlogs, fileContents, postInfo,
                 rssFeed, diagnostics, exitCode, xvars, others>>

\* line 137, fs.writeFile: feed.xml cannot be opened for writing
OpenFeedFails ==
  /\ pc = "open"
  /\ MainRejects
  /\ UNCHANGED <<root, feedPrior, feedFile, blogDirs, yearBlogs, allBlogs, fileContents,
                 postInfo, rssFeed, xvars, others>>

\* (the feed written after the content the file had)
WriteFeedAppended ==
  /\ pc = "write"
  /\ feedFile' = (IF feedPrior = Absent THEN <<>> ELSE feedPrior) \o rssFeed
  /\ pc' = "done"
  /\ UNCHANGED <<root, feedPrior, blogDirs, yearBlogs, allBlogs, fileContents, postInfo,
                 rssFeed, diagnostics, exitCode, xvars, others>>

\* line 137, fs.writeFile: the feed is written to the open file
WriteFeed ==
  /\ pc = "write"
  /\ feedFile' = rssFeed
  /\ pc' = "done"
  /\ UNCHANGED <<root, feedPrior, blogDirs, yearBlogs, allBlogs, fileContents, postInfo,
                 rssFeed, diagnostics, exitCode, xvars, others>>

\* (a failed write tried again)
WriteFeedRetried ==
  /\ pc = "write"
  /\ \E n \in {0, Len(rssFeed) \div 2} : feedFile' = SubSeq(rssFeed, 1, n)
  /\ pc' = "open"
  /\ UNCHANGED <<root, feedPrior, blogDirs, yearBlogs, allBlogs, fileContents, postInfo,
                 rssFeed, diagnostics, exitCode, xvars, others>>

\* line 137, fs.writeFile: the write fails with a part of the feed written
WriteFeedFails ==
  /\ pc = "write"
  /\ \E n \in {0, Len(rssFeed) \div 2} : feedFile' = SubSeq(rssFeed, 1, n)
  /\ MainRejects
  /\ UNCHANGED <<root, feedPrior, blogDirs, yearBlogs, allBlogs, fileContents, postInfo,
                 rssFeed, xvars, others>>

Next ==
  \/ ReadRoot
  \/ ReadRootFails
  \/ \E i \in DOMAIN yearBlogs : FindBlogsInYearDir(i)
  \/ \E i \in DOMAIN yearBlogs : FindBlogsInYearDirFails(i)
  \/ SortBlogs
  \/ \E i \in DOMAIN postInfo : ReadFile(i)
  \/ \E i \in DOMAIN postInfo : ReadFileFails(i)
  \/ Render
  \/ OpenFeed
  \/ OpenFeedFails
  \/ WriteFeed
  \/ WriteFeedFails

Spec == Init /\ [][Next]_vars

----------------------------------------------------------------------------
(* The reads in every order: main() over trees of documents alone, listed *)
(* in another order than that of their dates                               *)

ReadEntries ==
  { <<Y2024, M1, D1, FA>>,   \* the latest day
    <<Y2023, M1, D2, FA>>,
    <<Y2023, M1, D1, FA>>,   \* two documents of the earliest day
    <<Y2023, M1, D1, FB>> }

ReadTrees == {TreeOf(es) : es \in SeqsOfDistinct(ReadEntries, MaxRead)}

RInit ==
  /\ root \in ReadTrees
  /\ feedPrior = Absent
  /\ feedFile = feedPrior
  /\ pc = "start"
  /\ blogDirs = <<>>
  /\ yearBlogs = <<>>
  /\ allBlogs = <<>>
  /\ fileContents = <<>>
  /\ postInfo = <<>>
  /\ rssFeed = <<>>
  /\ diagnostics = 0
  /\ exitCode = 0
  /\ BuildHost
  /\ XIdle
  /\ DIdle
  /\ SIdle
  /\ TIdle
  /\ LIdle

SpecReads == RInit /\ [][Next]_vars

----------------------------------------------------------------------------
(* extractPostInfo applied to one document *)

MainIdle ==
  /\ root = <<>>
  /\ feedPrior = Absent
  /\ feedFile = Absent
  /\ pc = "idle"
  /\ blogDirs = <<>>
  /\ yearBlogs = <<>>
  /\ allBlogs = <<>>
  /\ fileContents = <<>>
  /\ postInfo = <<>>
  /\ rssFeed = <<>>
  /\ diagnostics = 0
  /\ exitCode = 0

XInit ==
  /\ markdownContents \in Documents
  /\ extracted = Pending
  /\ xpc = "ready"
  /\ BuildHost
  /\ MainIdle
  /\ DIdle
  /\ SIdle
  /\ TIdle
  /\ LIdle

ExtractPostInfo ==
  /\ xpc = "ready"
  /\ extracted' = extractPostInfo(markdownContents)
  /\ xpc' = IF extracted'.state = "rejected" THEN "rejected" ELSE "resolved"
  /\ UNCHANGED <<markdownContents, mvars, others>>

XNext == ExtractPostInfo

SpecExtract == XInit /\ [][XNext]_vars

----------------------------------------------------------------------------
(* The date of one item, over the zones of the process *)

\* the names of month and day directories: with and without a leading zero,
\* past the end of the year and of the month, and not a number
MonthDirs == {<<"3">>, <<"0", "3">>, <<"1">>, <<"1", "2">>, <<"1", "3">>, <<"x">>}
DayDirs == {<<"7">>, <<"0", "7">>, <<"1">>, <<"3", "1">>, <<"0">>}

\* paths as the scan gives them: repoDir/year/month/day/entry
DatedBlogs ==
  {repoDir \o <<SLASH>> \o y \o <<SLASH>> \o m \o <<SLASH>> \o d \o <<SLASH>> \o FA :
     y \in {Y2023, Y2024}, m \in MonthDirs, d \in DayDirs}

DInit ==
  /\ datedBlog \in DatedBlogs
  /\ tz \in TimeZones
  /\ now = HourOf(2024, 5, 10) + 12
  /\ pubDate = <<>>
  /\ dpc = "ready"
  /\ MainIdle
  /\ XIdle
  /\ SIdle
  /\ TIdle
  /\ LIdle

\* lines 120-123: the date of the item of one document
ResolveDate ==
  /\ dpc = "ready"
  /\ pubDate' = dateOf(datedBlog)
  /\ dpc' = "resolved"
  /\ UNCHANGED <<datedBlog, mvars, xvars, evars, svars, tvars, lvars>>

DNext == ResolveDate

SpecDates == DInit /\ [][DNext]_vars

----------------------------------------------------------------------------
(* The ordering alone: the scan of a tree of documents, and the sort of it *)

M01 == <<"0", "1">>

SortEntries ==
  { <<Y2023, MX, D1, FA>>,    \* two documents of a month directory that names no month
    <<Y2023, MX, D1, FB>>,
    <<Y2023, M1, D2, FA>>,    \* a day
    <<Y2023, M1, D1, FA>>,    \* the day before it
    <<Y2023, M1, MX, FA>>,    \* a day directory that names no day
    <<Y2023, M01, D1, FA>>,   \* two documents of that day before, its month
    <<Y2023, M01, D1, FB>> }  \* named with a leading zero

SortTrees == {TreeOf(es) : es \in SeqsOfDistinct(SortEntries, MaxSorted)}

\* lines 94-101: the paths of the documents of a tree, in the order of the scan
allBlogsOf(tree) ==
  LET years == blogDirsOf(readdir(tree, repoDir).names)
      found == [i \in DOMAIN years |-> findBlogsInYearDir(tree, years[i])]
  IN  IF \E i \in DOMAIN found : found[i].state = "rejected"
      THEN [state |-> "rejected", value |-> <<>>]
      ELSE [state |-> "fulfilled",
            value |-> Flat([i \in DOMAIN found |-> found[i].value])]

SInit ==
  /\ sortRoot \in SortTrees
  /\ unsorted = allBlogsOf(sortRoot).value
  /\ sorted = <<>>
  /\ spc = "ready"
  /\ BuildHost
  /\ MainIdle
  /\ XIdle
  /\ DIdle
  /\ TIdle
  /\ LIdle

\* lines 106-114: allBlogs.sort
SortArray ==
  /\ spc = "ready"
  /\ sorted' = Sort(unsorted)
  /\ spc' = "sorted"
  /\ UNCHANGED <<sortRoot, unsorted, mvars, xvars, evars, dvars, tvars, lvars>>

SNext == SortArray

SpecSort == SInit /\ [][SNext]_vars

----------------------------------------------------------------------------
(* Two builds of one tree, the second at a later time: main() without the *)
(* failures of the file system calls, of which the feed is a function of   *)
(* the tree, of the content of the documents, and of the zone and the      *)
(* clock of the process                                                     *)

TwiceEntries ==
  { <<Y2023, M1, D1, FA>>,   \* two documents of one day
    <<Y2023, M1, D1, FB>>,
    <<Y2024, M1, D1, FA>>,   \* another year
    <<Y2023, MX, D1, FA>>,   \* a month directory that names no month
    <<Y2023, FN>> }          \* a file where a month directory is expected

TwiceTrees == {TreeOf(es) : es \in SeqsOfDistinct(TwiceEntries, MaxTwice)}

TInit ==
  /\ twiceRoot \in TwiceTrees
  /\ twiceContent \in DocContents
  /\ tz \in TimeZones
  /\ now \in Clocks
  /\ build = 1
  /\ twiceBlogs = <<>>
  /\ twiceInfos = <<>>
  /\ firstFeed = <<>>
  /\ secondFeed = <<>>
  /\ tpc = "scan"
  /\ MainIdle
  /\ XIdle
  /\ DIdle
  /\ SIdle
  /\ LIdle

\* the build ends, with the feed it wrote or with Thrown
Built(feed) ==
  /\ tpc' = "built"
  /\ IF build = 1 THEN firstFeed' = feed /\ secondFeed' = secondFeed
     ELSE secondFeed' = feed /\ firstFeed' = firstFeed

\* lines 94-114: the scan and the sort
ScanAndSort ==
  /\ tpc = "scan"
  /\ LET scan == allBlogsOf(twiceRoot)
     IN  IF scan.state = "rejected"
         THEN Built(Thrown) /\ twiceBlogs' = twiceBlogs
         ELSE /\ twiceBlogs' = Sort(scan.value)
              /\ tpc' = "extract"
              /\ UNCHANGED <<firstFeed, secondFeed>>
  /\ UNCHANGED <<twiceRoot, twiceContent, build, twiceInfos, mvars, xvars, evars, dvars,
                 svars, lvars>>

\* line 117: every document is read and its PostInfo extracted
ExtractAll ==
  /\ tpc = "extract"
  /\ twiceInfos' = [i \in DOMAIN twiceBlogs |->
                      IF IsFile(twiceRoot, twiceBlogs[i])
                      THEN extractPostInfo(twiceContent) ELSE Rejected]
  /\ IF \E i \in DOMAIN twiceInfos' : twiceInfos'[i].state = "rejected"
     THEN Built(Thrown)
     ELSE tpc' = "render" /\ UNCHANGED <<firstFeed, secondFeed>>
  /\ UNCHANGED <<twiceRoot, twiceContent, build, twiceBlogs, mvars, xvars, evars, dvars,
                 svars, lvars>>

\* lines 119-137: the feed is rendered and written
RenderAndWrite ==
  /\ tpc = "render"
  /\ Built(rssFeedOf(twiceBlogs, twiceInfos))
  /\ UNCHANGED <<twiceRoot, twiceContent, build, twiceBlogs, twiceInfos, mvars, xvars,
                 evars, dvars, svars, lvars>>

\* lines 22-23, 140: the module is loaded again, in the same hour or later,
\* and main() is called
BuildAgain ==
  /\ tpc = "built"
  /\ build = 1
  /\ \E later \in Clocks : later >= now /\ now' = later
  /\ build' = 2
  /\ twiceBlogs' = <<>>
  /\ twiceInfos' = <<>>
  /\ tpc' = "scan"
  /\ UNCHANGED <<twiceRoot, twiceContent, firstFeed, secondFeed, tz, mvars, xvars,
                 dvars, svars, lvars>>

TNext ==
  \/ ScanAndSort
  \/ ExtractAll
  \/ RenderAndWrite
  \/ BuildAgain

SpecTwice == TInit /\ [][TNext]_vars

----------------------------------------------------------------------------
(* The root elsewhere: the two dates of a document, the one it is ordered  *)
(* by and the one rendered for it, with repoDir at several places          *)

Y2020 == <<"2", "0", "2", "0">>

\* where the repository is checked out: repoDir is path.join(__dirname, '..')
Checkouts ==
  { repoDir,
    <<SLASH, "h">> \o <<SLASH>> \o Y2020 \o <<SLASH>> \o M1 \o <<SLASH>> \o D1
      \o <<SLASH, "r">> }

\* a day directory named with three digits beside the others
PlacedDayDirs == DayDirs \cup {<<"1", "2", "3">>}

LInit ==
  /\ checkout \in Checkouts
  /\ \E y \in {Y2023, Y2024}, m \in MonthDirs, d \in PlacedDayDirs :
       placedBlog = PathJoin(PathJoin(PathJoin(PathJoin(checkout, y), m), d), FA)
  /\ tz \in TimeZones
  /\ now = HourOf(2024, 5, 10) + 12
  /\ matchedDate = InvalidDate
  /\ renderedDate = <<>>
  /\ lpc = "ready"
  /\ MainIdle
  /\ XIdle
  /\ DIdle
  /\ SIdle
  /\ TIdle

\* lines 107-113 and 120-123: the date of the match of dateExtractionRegex,
\* none when the path does not match, and the date of the item
ResolveBothDates ==
  /\ lpc = "ready"
  /\ LET aMatchResult == dateExtractionRegex(placedBlog)
     IN  matchedDate' = IF aMatchResult.matched THEN NewDate(aMatchResult.group)
                        ELSE InvalidDate
  /\ renderedDate' = toUTCString(NewDate(extractedDateIn(checkout, placedBlog)))
  /\ lpc' = "resolved"
  /\ UNCHANGED <<checkout, placedBlog, mvars, xvars, evars, dvars, svars, tvars>>

LNext == ResolveBothDates

SpecPlaced == LInit /\ [][LNext]_vars

----------------------------------------------------------------------------
(* Notions the properties are stated with *)

YearNames == {Y2023, Y2024}

\* the names of a path below repoDir
RelNames(path) == FilterBoolean(Split(SubSeq(path, Len(repoDir) + 1, Len(path)), SLASH))

PathOf(names) == repoDir \o FlatMap(LAMBDA n : <<SLASH>> \o n, names)

AfterScan == {"read", "open", "write", "done"}

\* year, month and day directories that hold nothing but document files
WellFormed(tree) ==
  \A y \in Range(tree) :
    /\ y.kind = "dir"
    /\ \A m \in Range(y.kids) :
         /\ m.kind = "dir"
         /\ \A d \in Range(m.kids) :
              /\ d.kind = "dir"
              /\ \A f \in Range(d.kids) : f.kind = "file"

\* the files at root/<year>/<month>/<day>/<file>
FilesByDay(tree) ==
  UNION {UNION {UNION {{PathOf(<<y.name, m.name, d.name, f.name>>) :
                          f \in {g \in Range(d.kids) : g.kind = "file"}} :
                       d \in Range(m.kids)} :
                m \in Range(y.kids)} :
         y \in {z \in Range(tree) : z.name \in YearNames}}

\* the calendar day a path below the root names, if it names one
PathDate(path) ==
  LET names == RelNames(path)
  IN  IF Len(names) < 3 THEN InvalidDate
      ELSE NewDate(names[1] \o <<SLASH>> \o names[2] \o <<SLASH>> \o names[3])

Count(s, token) == Cardinality({i \in DOMAIN s : s[i] = token})

\* where the item with the link of a document is in a feed; 0 if nowhere
ItemIndex(feed, blog) ==
  IndexOf(feed, <<"</description>\n  <link>", githubURLBase, "/blob/main">>
                  \o SubSeq(blog, Len(repoDir) + 1, Len(blog))
                  \o <<"</link>\n  <pubDate>">>)

ItemCount(feed, blog) ==
  LET link == <<"</description>\n  <link>", githubURLBase, "/blob/main">>
                \o SubSeq(blog, Len(repoDir) + 1, Len(blog))
                \o <<"</link>\n  <pubDate>">>
  IN  Cardinality({i \in 1..(Len(feed) - Len(link) + 1) :
                     SubSeq(feed, i, i + Len(link) - 1) = link})

\* a content without a non-empty line
NoLines(content) == \A i \in DOMAIN content : content[i] = LF

\* one line of ordinary letters
PlainLine(content) == content # <<>> /\ \A i \in DOMAIN content : content[i] = "a"

----------------------------------------------------------------------------
(* C1.  In the feed of a finished run, of two documents whose paths name  *)
(* calendar days, the one with the earlier day comes first, whatever      *)
(* other documents there are.  (Refuted: a document without a date        *)
(* between the two keeps them apart.)                                      *)
C1_EarlierDateFirst ==
  pc = "done" =>
    \A p, q \in Range(allBlogs) :
      (PathDate(p).valid /\ PathDate(q).valid /\ PathDate(p).time < PathDate(q).time)
        => ItemIndex(feedFile, p) < ItemIndex(feedFile, q)

(* C2.  A document whose read fails does not fail the run.  (Refuted: the *)
(* rejection of one read rejects main.)                                    *)
C2_ReadFailureIsolated ==
  (\E i \in DOMAIN postInfo : postInfo[i].state = "rejected")
    => (pc # "failed" /\ exitCode = 0)

(* C3.  At every point of the run feed.xml holds its complete prior       *)
(* content or the complete rendered feed.  (Refuted: opening the file     *)
(* for writing empties it.)                                                *)
C3_FeedNeverPartial ==
  \/ feedFile = feedPrior
  \/ pc \in {"open", "write", "done", "failed"} /\ feedFile = rssFeed

(* C4.  The feed of a finished run holds one item per document, each      *)
(* document in one item, and one channel block around all items.          *)
(* (Refuted: a "$'" in a description copies the end of the template, with *)
(* its closing channel tag, into the item.)                                *)
C4_OneItemPerDocument ==
  pc = "done" =>
    /\ Count(feedFile, "<item>") = Len(allBlogs)
    /\ Count(feedFile, "</item>") = Len(allBlogs)
    /\ \A i \in DOMAIN allBlogs : ItemCount(feedFile, allBlogs[i]) = 1
    /\ Count(feedFile, "<channel>") = 1
    /\ Count(feedFile, "</channel>") = 1
    /\ \A i, j, k \in DOMAIN feedFile :
         (feedFile[i] = "<channel>" /\ feedFile[j] \in {"<item>", "</item>"}
            /\ feedFile[k] = "</channel>") => (i < j /\ j < k)

(* C5.  Only the entries of the root that are named as a year are         *)
(* scanned: every year directory and every document path lies below one,  *)
(* and every year-named entry is scanned.                                  *)
C5_NonYearEntriesExcluded ==
  /\ \A i \in DOMAIN blogDirs : RelNames(blogDirs[i])[1] \in YearNames
  /\ \A i \in DOMAIN allBlogs : RelNames(allBlogs[i])[1] \in YearNames
  /\ pc \in {"scan"} \cup AfterScan =>
       \A y \in Range(root) :
         y.name \in YearNames => PathOf(<<y.name>>) \in Range(blogDirs)

\* the root of the example: a directory that names no year, and 2023/1/1/a
C5_Witness ==
  /\ root = TreeOf(<< <<NDocs, M1, D1, FA>>, <<Y2023, M1, D1, FA>> >>)
  /\ pc = "read"
  /\ allBlogs = <<PathOf(<<Y2023, M1, D1, FA>>)>>

(* C6.  Over year, month and day directories that hold documents, the     *)
(* scan yields the files at root/year/month/day/file: all of them, each   *)
(* once.                                                                    *)
C6_ScanYieldsEveryFileOnce ==
  (pc \in AfterScan /\ WellFormed(root)) =>
    /\ Range(allBlogs) = FilesByDay(root)
    /\ Len(allBlogs) = Cardinality(FilesByDay(root))

\* two years, and two files of one day
C6_Witness ==
  /\ pc = "read"
  /\ WellFormed(root)
  /\ Len(allBlogs) = 3
  /\ \E i, j \in DOMAIN allBlogs :
       RelNames(allBlogs[i])[1] # RelNames(allBlogs[j])[1]
  /\ \E i, j \in DOMAIN allBlogs :
       i # j /\ SubSeq(RelNames(allBlogs[i]), 1, 3) = SubSeq(RelNames(allBlogs[j]), 1, 3)

(* C7.  A description without its marker is no longer than the budget.    *)
(* (Refuted: the body is cut before it is reduced, and the serializer     *)
(* lengthens text by escaping it.)                                         *)
C7_DescriptionWithinBudget ==
  xpc = "resolved" =>
    Len(extracted.description) - Len(Marker) <= descriptionCharsToUse

(* C8.  A document of one line of plain text has that line as its title   *)
(* and the marker alone as its description.  (Refuted: the title ends     *)
(* with the line feed of the serializer.)                                  *)
C8_SingleLineTitle ==
  (xpc = "resolved" /\ PlainLine(markdownContents)) =>
    /\ extracted.title = markdownContents
    /\ extracted.description = Marker

(* C9.  A document without a non-empty line does not fail the extraction: *)
(* its PostInfo is there, with the empty title.                            *)
C9_NoLinesEmptyTitle ==
  \A i \in DOMAIN fileContents :
    NoLines(fileContents[i]) =>
      (postInfo[i].state = "fulfilled" /\ postInfo[i].title = <<>>)

\* a run that read such a document and wrote its feed
C9_Witness ==
  /\ pc = "done"
  /\ \E i \in DOMAIN fileContents : fileContents[i] = <<LF>>
  /\ \E i \in DOMAIN fileContents : fileContents[i] = <<>>

(* C10 as stated.  Every extracted title is non-empty.  (Refuted: a       *)
(* document without content has the empty title.)                          *)
C10_TitleNonEmpty ==
  xpc = "resolved" => extracted.title # <<>>

(* C10.  The title is empty exactly when the document has no non-empty    *)
(* line or its first non-empty line is markup only; no placeholder        *)
(* stands in for it.                                                        *)
C10_TitleEmptyIffNoText ==
  xpc = "resolved" =>
    LET lines == FilterBoolean(Split(markdownContents, LF))
    IN  extracted.title = <<>>
          <=> (lines = <<>> \/ \A i \in DOMAIN lines[1] : lines[1][i] = "#")

\* a document without content, extracted
C10_Witness ==
  /\ xpc = "resolved"
  /\ NoLines(markdownContents)
  /\ extracted.title = <<>>

\* a path whose first three names are the numbers of a year, of a month of
\* the year and of a day of that month
NamesCalendarDay(path) ==
  LET names == RelNames(path)
  IN  /\ Len(names) >= 3
      /\ \A i \in 1..3 : IsNumber(names[i])
      /\ ToNumber(names[2]) \in 1..12
      /\ ToNumber(names[3]) \in 1..DaysInMonth(ToNumber(names[1]), ToNumber(names[2]))

\* a date and time of RFC 822 with a year of four digits, as the schema of
\* the feed has it: "Thu, 07 Mar 2024 00:00:00 GMT"
IsTimestamp(text) ==
  /\ Len(text) = 10
  /\ text[1] \in Range(WeekDayNames)
  /\ text[2] = ", "
  /\ text[3] \in {Pad2(k) : k \in 1..31}
  /\ text[4] = " "
  /\ text[5] \in Range(MonthNames)
  /\ text[6] = " "
  /\ text[7] \in {ToString(y) : y \in 1970..2999}
  /\ text[8] = " "
  /\ text[9] \in {Pad2(k) : k \in 0..23}
  /\ text[10] = ":00:00 GMT"

(* C11.  The date rendered for a document at year/month/day/file, month   *)
(* and day those of a calendar day, is that calendar day.  (Refuted: the  *)
(* path is read as midnight in the zone of the process and written in     *)
(* UTC, which ahead of UTC is the day before.)                             *)
C11_RenderedDateIsPathDate ==
  (dpc = "resolved" /\ NamesCalendarDay(datedBlog)) =>
    LET names == RelNames(datedBlog)
    IN  /\ Len(pubDate) = 10
        /\ pubDate[3] = Pad2(ToNumber(names[3]))
        /\ pubDate[5] = MonthNames[ToNumber(names[2])]
        /\ pubDate[7] = ToString(ToNumber(names[1]))

(* C20.  The date rendered for a document the scan can discover is a      *)
(* well-formed timestamp of the schema of the feed.  (Refuted: a path     *)
(* that names no date is rendered as "Invalid Date".)                      *)
C20_PubDateWellFormed ==
  dpc = "resolved" => IsTimestamp(pubDate)

\* the paths the scan of the year directories gave, in the order of the scan
Discovered == Flat([i \in DOMAIN yearBlogs |-> yearBlogs[i].value])

\* the item of a document in a feed, with the date of it
HasItemDated(feed, blog, date) ==
  IndexOf(feed, <<"</description>\n  <link>", githubURLBase, "/blob/main">>
                  \o SubSeq(blog, Len(repoDir) + 1, Len(blog))
                  \o <<"</link>\n  <pubDate>">> \o date \o <<"</pubDate>\n">>) > 0

(* C12.  A discovered document whose path names no date does not stop     *)
(* the ordering, and it is in the feed of the finished run as an item,    *)
(* with the date that stands for no date.                                  *)
C12_UndatedDocumentRendered ==
  /\ pc \in AfterScan => Range(Discovered) \subseteq Range(allBlogs)
  /\ pc = "done" =>
       \A blog \in Range(Discovered) :
         ~PathDate(blog).valid => HasItemDated(feedFile, blog, <<"Invalid Date">>)

\* a finished run over a document without a date and two with one
C12_Witness ==
  /\ pc = "done"
  /\ Len(allBlogs) = 3
  /\ \E i \in DOMAIN allBlogs : ~PathDate(allBlogs[i]).valid
  /\ \E i, j \in DOMAIN allBlogs :
       PathDate(allBlogs[i]).valid /\ PathDate(allBlogs[j]).valid /\ i # j

\* the date the ordering takes a path to have
SortDate(path) ==
  LET matchResult == dateExtractionRegex(path)
  IN  IF matchResult.matched THEN NewDate(matchResult.group) ELSE InvalidDate

\* two documents the ordering has no reason to tell apart
Tie(p, q) ==
  \/ ~SortDate(p).valid /\ ~SortDate(q).valid
  \/ SortDate(p).valid /\ SortDate(q).valid /\ SortDate(p).time = SortDate(q).time

PositionIn(q, e) == CHOOSE i \in DOMAIN q : q[i] = e

(* C13.  Two documents of one date, and two documents without a date,     *)
(* are after the sort in the order in which the scan discovered them.     *)
C13_TiesKeepScanOrder ==
  spc = "sorted" =>
    \A i, j \in DOMAIN unsorted :
      (i < j /\ Tie(unsorted[i], unsorted[j]))
        => PositionIn(sorted, unsorted[i]) < PositionIn(sorted, unsorted[j])

\* a feed with the n tokens after an opening tag blanked
Blank(feed, opening, n) ==
  LET i == IndexOf(feed, <<opening>>)
  IN  IF i = 0 THEN feed
      ELSE [k \in DOMAIN feed |-> IF k > i /\ k <= i + n THEN "?" ELSE feed[k]]

\* a feed without the time of the build, which is in lastBuildDate and in the
\* pubDate of the channel
WithoutBuildTime(feed) ==
  Blank(Blank(feed, "</copyright>\n <lastBuildDate>", 10), "</lastBuildDate>\n <pubDate>", 10)

\* a feed without the year of the build, which is in the copyright
WithoutBuildYear(feed) == Blank(feed, "</link>\n <copyright>", 1)

\* the second build has ended
BuiltTwice == tpc = "built" /\ build = 2

C15_OverwrittenInFull ==
  /\ pc = "done" => feedFile = rssFeed /\ rssFeed # <<>>
  /\ feedFile # feedPrior => feedFile = SubSeq(rssFeed, 1, Len(feedFile))

\* a finished run over a document, feed.xml there before it
C15_Witness ==
  /\ pc = "done"
  /\ feedPrior = OldFeed
  /\ Len(allBlogs) >= 1
  /\ Count(feedFile, "<item>") >= 1

\* main() failed at the listing of the root: nothing was listed, nothing rendered
RootUnreadable ==
  /\ pc = "failed"
  /\ blogDirs = <<>>
  /\ rssFeed = <<>>

(* C16.  When the root cannot be read the run ends with a non-zero exit   *)
(* code and one reported error, and feed.xml is as it was before the run. *)
C16_RootUnreadableAborts ==
  RootUnreadable =>
    /\ exitCode # 0
    /\ diagnostics = 1
    /\ feedFile = feedPrior

\* such a run, over a root with documents and with feed.xml there before it
C16_Witness ==
  /\ RootUnreadable
  /\ root # <<>>
  /\ feedPrior = OldFeed
  /\ exitCode = 1

\* the link tokens of the items of a feed that hold a given link
LinksTo(feed, link) ==
  {i \in DOMAIN feed :
     /\ feed[i] = "</description>\n  <link>"
     /\ i + Len(link) + 1 <= Len(feed)
     /\ SubSeq(feed, i + 1, i + Len(link)) = link
     /\ feed[i + Len(link) + 1] = "</link>\n  <pubDate>"}

StageOf(p) ==
  CASE p = "start" -> 0
    [] p = "scan" -> 1
    [] p = "read" -> 2
    [] p = "open" -> 3
    [] p = "write" -> 4
    [] p \in {"done", "failed"} -> 5

Ended == pc \in {"done", "failed"}

\* a step stays in its stage, goes on to the next one, or fails; a settled
\* promise is not settled again; the file is changed by the write alone,
\* when the feed is rendered
StepForward ==
  /\ ~Ended
  /\ pc' = "failed" \/ StageOf(pc') \in {StageOf(pc), StageOf(pc) + 1}
  /\ \A i \in DOMAIN yearBlogs :
       yearBlogs[i].state # "pending" => yearBlogs'[i] = yearBlogs[i]
  /\ \A i \in DOMAIN postInfo :
       postInfo[i].state # "pending" => postInfo'[i] = postInfo[i]
  /\ rssFeed # <<>> => rssFeed' = rssFeed
  /\ feedFile' # feedFile => pc \in {"open", "write"} /\ rssFeed # <<>>
  /\ feedFile' \notin {feedFile, <<>>} => pc = "write" /\ Ended'

PendingCount ==
  Cardinality({i \in DOMAIN yearBlogs : yearBlogs[i].state = "pending"})
    + Cardinality({i \in DOMAIN postInfo : postInfo[i].state = "pending"})

\* an operation main() waits for can settle, or main() has all it waits for
\* (the conditions of SortBlogs and of Render) and can go on
CanStep ==
  \/ ENABLED ReadRootFails
  \/ ENABLED (\E i \in DOMAIN yearBlogs : FindBlogsInYearDirFails(i))
  \/ pc = "scan" /\ \A i \in DOMAIN yearBlogs : yearBlogs[i].state = "fulfilled"
  \/ ENABLED (\E i \in DOMAIN postInfo : ReadFileFails(i))
  \/ pc = "read" /\ \A i \in DOMAIN postInfo : postInfo[i].state = "fulfilled"
  \/ ENABLED OpenFeedFails
  \/ ENABLED WriteFeedFails

LinesOf(contents) == FilterBoolean(Split(contents, LF))

\* what the reducer returned for the body of the document
ReducedBody == stripMarkdown(nonTitleContent(LinesOf(markdownContents)))

\* a description without the three characters it ends with
BeforeMarker(description) == SubSeq(description, 1, Len(description) - Len(Marker))

\* text is what is left of reduced when the white space around it is cut
\* off and every line feed in it is written as one space
IsTrimmedOnOneLine(text, reduced) ==
  \E k \in 0..(Len(reduced) - Len(text)) :
    /\ \A j \in 1..k : IsWhiteSpace(reduced[j])
    /\ \A j \in (k + Len(text) + 1)..Len(reduced) : IsWhiteSpace(reduced[j])
    /\ \A j \in 1..Len(text) :
         text[j] = (IF reduced[k + j] = LF THEN SP ELSE reduced[k + j])

(* C21.  A description ends with the marker, cut or not; before the       *)
(* marker it is the reduced body without the white space around it, every *)
(* line feed in it written as one space: it holds no line feed and        *)
(* neither starts nor ends with white space.                               *)
C21_DescriptionIsTrimmedReduction ==
  xpc = "resolved" =>
    LET description == extracted.description
        text == BeforeMarker(description)
    IN  /\ Len(description) >= Len(Marker)
        /\ SubSeq(description, Len(text) + 1, Len(description)) = Marker
        /\ \A j \in DOMAIN text : text[j] # LF
        /\ text # <<>> => ~IsWhiteSpace(text[1]) /\ ~IsWhiteSpace(text[Len(text)])
        /\ IsTrimmedOnOneLine(text, ReducedBody)

\* a body of two lines, far below the budget, extracted
C21_Witness ==
  /\ xpc = "resolved"
  /\ markdownContents = <<"a", LF, "a", LF, "a">>
  /\ extracted.description = <<"a", SP, "a">> \o Marker

(* C23.  The reducer is given no more of the body than the budget, in     *)
(* characters of the source, however long the body is, and the            *)
(* description is made of what it returns for that.                        *)
C23_ReducerInputWithinBudget ==
  xpc = "resolved" =>
    LET lines == LinesOf(markdownContents)
        body == Join(SubSeq(lines, 2, Len(lines)), <<LF>>)
        given == nonTitleContent(lines)
    IN  /\ Len(given) <= descriptionCharsToUse
        /\ given = SubSeq(body, 1, Len(given))
        /\ Len(body) >= descriptionCharsToUse => Len(given) = descriptionCharsToUse
        /\ extracted.description = ReplaceNewlines(Trim(stripMarkdown(given))) \o Marker

\* a body one character longer than the budget, extracted
C23_Witness ==
  /\ xpc = "resolved"
  /\ markdownContents = <<"a", LF>> \o Rep("a", descriptionCharsToUse + 1)
  /\ Len(extracted.description) = descriptionCharsToUse + Len(Marker)

(* C22.  Every path the scan yields is the path of a file.  (Refuted: an  *)
(* entry of a day directory is yielded whatever it is, a directory too.)  *)
C22_OnlyFilesYielded ==
  pc \in AfterScan => \A i \in DOMAIN allBlogs : IsFile(root, allBlogs[i])

\* the item of a PostInfo in a feed, title and description as extracted
HasItemOf(feed, info) ==
  IndexOf(feed, <<"<item>", "\n  <title>">> \o info.title
                  \o <<"</title>\n  <description>">> \o info.description
                  \o <<"</description>\n  <link>">>) > 0

(* C28.  The feed of a finished run holds the title and the description   *)
(* of every document as they were extracted, character for character.     *)
(* (Refuted: the items are handed to replace() as the replacement, in     *)
(* which "$'" stands for the text after the placeholder.)                  *)
C28_ItemTextVerbatim ==
  pc = "done" => \A i \in DOMAIN postInfo : HasItemOf(feedFile, postInfo[i])

\* a year directory holds a file where a month directory is expected, or a
\* month directory one where a day directory is expected
HasStrayFile(tree) ==
  \E y \in Range(tree) :
    /\ y.name \in YearNames
    /\ \E m \in Range(y.kids) :
         m.kind = "file" \/ \E d \in Range(m.kids) : d.kind = "file"

(* C29.  A file where a month or a day directory is expected does not end *)
(* the build: the scan goes on and yields every document at               *)
(* year/month/day/file.  (Refuted: the listing of the file rejects, and   *)
(* with it the scan and main.)                                             *)
C29_StrayFileTolerated ==
  HasStrayFile(twiceRoot) =>
    /\ firstFeed # Thrown
    /\ secondFeed # Thrown
    /\ tpc \in {"extract", "render"} => FilesByDay(twiceRoot) \subseteq Range(twiceBlogs)

Sign(n) == IF n < 0 THEN 0 - 1 ELSE IF n > 0 THEN 1 ELSE 0

(* C30.  Over the paths of a scan the comparison of the sort is a         *)
(* consistent ordering: antisymmetric, transitive, and with a transitive  *)
(* "compares equal".  (Refuted: a path without a date compares equal to   *)
(* every path, also to two paths of different dates.)                      *)
C30_ComparatorConsistent ==
  spc = "sorted" =>
    \A a, b, c \in Range(unsorted) :
      /\ Sign(SortCompare(a, b)) = 0 - Sign(SortCompare(b, a))
      /\ (SortCompare(a, b) < 0 /\ SortCompare(b, c) < 0) => SortCompare(a, c) < 0
      /\ (SortCompare(a, b) = 0 /\ SortCompare(b, c) = 0) => SortCompare(a, c) = 0

\* where the items of a feed start
ItemStarts(feed) == {p \in DOMAIN feed : feed[p] = "<item>"}

HoldsAt(feed, p, text) ==
  /\ p + Len(text) - 1 <= Len(feed)
  /\ SubSeq(feed, p, p + Len(text) - 1) = text

\* the text after the placeholder of the template
TemplateTail ==
  SubSeq(rssTemplate, IndexOf(rssTemplate, <<Placeholder>>) + 1, Len(rssTemplate))

\* the item of a document as replace() writes it before the text after the
\* placeholder: title and description of the content read for the document,
\* link and date of its path
ItemAsWritten(content, blog, after) ==
  GetSubstitution(
    generateRSSItem(extractPostInfo(content),
                    githubURLPrefix \o SubSeq(blog, Len(repoDir) + 1, Len(blog)),
                    toUTCString(PathDate(blog))),
    <<Placeholder>>, <<>>, after)

(* C24.  The rendered feed has one item per document, in the order of the *)
(* sorted documents, and the i-th item has the title and the description  *)
(* of the content read for the i-th document and the link and the date of *)
(* its path, in whatever order the reads were settled.                     *)
C24_ItemsOfOwnDocument ==
  pc = "open" =>
    LET starts == ItemStarts(rssFeed)
        after == TemplateTail
    IN  /\ Cardinality(starts) = Len(allBlogs)
        /\ \A p \in starts :
             LET i == Cardinality({q \in starts : q <= p})
             IN  HoldsAt(rssFeed, p, ItemAsWritten(fileContents[i], allBlogs[i], after))

\* a rendered feed of three documents of three different contents, which
\* the sort has reordered
C24_Witness ==
  /\ pc = "open"
  /\ Len(allBlogs) = 3
  /\ allBlogs # Discovered
  /\ fileContents[1] = <<"#", "a", LF, "$", "'">>
  /\ fileContents[2] = <<>>
  /\ fileContents[3] = <<"a">>
  /\ Cardinality(ItemStarts(rssFeed)) = 3

(* C26.  Until the feed is rendered feed.xml is as it was before the run, *)
(* and a run that fails before the feed is rendered leaves it so: with    *)
(* its content, or not there.                                               *)
C26_FailureBeforeWriteLeavesFeed ==
  /\ pc \in {"start", "scan", "read"} => feedFile = feedPrior
  /\ (pc = "failed" /\ rssFeed = <<>>) => feedFile = feedPrior /\ exitCode # 0

\* a run failed at the read of a document after another was read, feed.xml
\* there before it
C26_Witness ==
  /\ pc = "failed"
  /\ rssFeed = <<>>
  /\ feedPrior = OldFeed
  /\ feedFile = OldFeed
  /\ \E i, j \in DOMAIN postInfo :
       postInfo[i].state = "rejected" /\ postInfo[j].state = "fulfilled"

\* the entries of the day directories below a year directory, year for year,
\* month for month and day for day in the order of the listings
ListedBelow(y) ==
  FlatMap(LAMBDA m :
            FlatMap(LAMBDA d :
                      [k \in DOMAIN d.kids |->
                         PathOf(<<y.name, m.name, d.name, d.kids[k].name>>)],
                    m.kids),
          y.kids)

\* the year directories in the order of the listing of the root
YearsListed(tree) == SelectSeq(tree, LAMBDA y : yearRegex(y.name))

(* C27.  The scan of a year directory yields the entries of its day       *)
(* directories in the order of the listings, and the year directories     *)
(* follow each other in the order of the listing of the root, in whatever *)
(* order the scans are settled.                                             *)
C27_DiscoveryInListingOrder ==
  [][\A i \in DOMAIN yearBlogs' :
       (/\ yearBlogs'[i].state = "fulfilled"
        /\ yearBlogs[i].state = "pending")
         => /\ Len(YearsListed(root)) = Len(yearBlogs)
            /\ yearBlogs'[i].value = ListedBelow(YearsListed(root)[i])
            /\ \A j \in DOMAIN yearBlogs : j # i => yearBlogs'[j] = yearBlogs[j]]_vars

\* the scans of two years have settled, the year listed second with two
\* documents, the year listed first with one
C27_Witness ==
  /\ pc = "read"
  /\ Len(yearBlogs) = 2
  /\ RelNames(blogDirs[1])[1] = Y2024
  /\ Len(yearBlogs[1].value) = 1
  /\ Len(yearBlogs[2].value) = 2
  /\ Discovered[1] = PathOf(<<Y2024, M1, D1, FA>>)

(* C25.  The date a document is ordered by is the date rendered for it,   *)
(* wherever the root is.  (Refuted: the ordering takes the first date in  *)
(* the whole path, which can lie in the path of the root, and at most two *)
(* digits of a day; the rendering takes the three names below the root.)  *)
C25_SortDateIsRenderedDate ==
  lpc = "resolved" => toUTCString(matchedDate) = renderedDate

====
